---- MODULE Spec2Model ----
(***************************************************************************)
(* State-machine model of swarm_sim.py: the drone squads (Boid), their     *)
(* projectiles, the two mouse commands and the world loop.                 *)
(*                                                                         *)
(* Numbers.  The program computes positions, velocities and health in      *)
(* floating point.  The model keeps them as fixed-point integers with      *)
(* SCALE units per 1.0 and truncates every product/quotient toward zero.   *)
(* Comparisons of a distance with a threshold are made on the squared      *)
(* distance, which is exact.                                               *)
(*                                                                         *)
(* Not part of the state: Ping (a drawing-only marker that nothing in the  *)
(* simulation reads), labels, colours and everything pygame draws.         *)
(***************************************************************************)
EXTENDS Integers, Sequences, FiniteSets, TLC

VARIABLES
    boid,         \* [agent id -> Boid object]; the objects ever created
    boids,        \* the global list `boids`: sequence of agent ids (the roster)
    projectiles,  \* the global list `projectiles`: sequence of Projectile objects
    tick,         \* number of completed iterations of the game loop
    wpCmds,       \* number of right-click (set waypoint) events handled so far
    hist          \* history of hits, heals and shield activations (observation only)

vars == <<boid, boids, projectiles, tick, wpCmds, hist>>

----------------------------------------------------------------------------
(* Bounds of the model *)

SCALE == 10                 \* fixed-point units per 1.0
NUM_SQUADS == 2             \* player squads (3 in the program)
BOIDS_PER_SQUAD == 3        \* drones per player squad, leader included (6 in the program)
NUM_ENEMY_SQUADS == 1       \* enemy squads (2 in the program)
MaxTicks == 8               \* game-loop iterations explored under Spec
MaxBattleTicks == 640       \* game-loop iterations explored under SpecBattle
MaxLongTicks == 920         \* game-loop iterations explored under SpecLong
MaxWaypointCmds == 1        \* right-click events explored under Spec
MantissaBits == 12          \* significand bits of the miniature floats of SpecWrap (53 in the program)

(* Program constants *)

WIDTH == 1000
HEIGHT == 700
BOID_RADIUS == 6
MAX_SPEED == 2
NEIGHBOR_RADIUS == 50
AVOID_RADIUS == 20
FORMATION_MODE == "V"
BOIDS_PER_ENEMY_SQUAD == 4
ENEMY_START_SQUAD_ID == 100
FIRING_RANGE == 200
DETECTION_RANGE == 300
PROJECTILE_SPEED == 5
PROJECTILE_DAMAGE == 5
PROJECTILE_COOLDOWN == 60
SHIELD_DURATION == 180
SHIELD_COOLDOWN == 600
HEAL_RADIUS == 60
FULL_HEALTH == 100
EVADE_HEALTH == 30

None == 0                   \* Python's None for leader_ref / target_enemy

----------------------------------------------------------------------------
(* Fixed-point arithmetic *)

\* a / b truncated toward zero (b > 0)
Quot(a, b) == IF a >= 0 THEN a \div b ELSE -((-a) \div b)

\* (num/den) * x, e.g. 0.05 * dx is Frac(5, 100, dx)
Frac(num, den, x) == Quot(num * x, den)

\* a pixel quantity in fixed-point units
Px(n) == n * SCALE

RECURSIVE SqrtSearch(_, _, _)
SqrtSearch(n, lo, hi) ==
    IF lo >= hi THEN lo
    ELSE LET mid == (lo + hi + 1) \div 2
         IN  IF mid * mid <= n THEN SqrtSearch(n, mid, hi)
                               ELSE SqrtSearch(n, lo, mid - 1)

\* floor of the square root
Isqrt(n) == SqrtSearch(n, 0, IF n < 46340 THEN n ELSE 46340)

\* squared Euclidean distance of two points
DistSq(a, b) == (a[1] - b[1]) * (a[1] - b[1]) + (a[2] - b[2]) * (a[2] - b[2])

\* math.hypot / distance(a, b)
Hypot(v) == Isqrt(v[1] * v[1] + v[2] * v[2])
distance(a, b) == Isqrt(DistSq(a, b))

\* distance(a, b) < r and distance(a, b) > r for a radius r in fixed-point units
Within(a, b, r) == DistSq(a, b) < r * r
Beyond(a, b, r) == DistSq(a, b) > r * r

Range(s) == {s[i] : i \in 1..Len(s)}

----------------------------------------------------------------------------
(* The agents created by the game initialisation, in creation (roster) order:
   player squad 0 (leader, followers 0..), player squad 1, ..., then the
   enemy squads likewise. *)

NumPlayers == NUM_SQUADS * BOIDS_PER_SQUAD
NumEnemies == NUM_ENEMY_SQUADS * BOIDS_PER_ENEMY_SQUAD
Agents == 1..(NumPlayers + NumEnemies)
\* the draws of the random initial placement that are explored: in draw 0 the
\* enemy squad starts 100 px from the first player leader with its followers
\* on one spot, in draw 21 it starts next to the second player squad, in draw 12
\* it starts out of detection range, in draw 23 it loses the battle
Seeds == {0, 21}
BattleSeeds == {12}
LongSeeds == {23}

\* random.randint(lo, hi) and random.uniform(-1, 1): the k-th draw of a seed
RandInt(lo, hi, k) == lo + (k % (hi - lo + 1))
RandUnit(k) == Quot(((k % 21) - 10) * SCALE, 10)

\* Boid.__init__
NewBoid(x, y, squad_id, is_leader, index, is_enemy, k) ==
    [ position |-> <<Px(x), Px(y)>>,
      velocity |-> <<RandUnit(k), RandUnit(3 * k + 5)>>,
      squad_id |-> squad_id,
      is_leader |-> is_leader,
      index_in_squad |-> index,
      leader_ref |-> None,
      formation_offset |-> <<0, 0>>,
      waypoints |-> <<>>,
      current_wp |-> 0,
      health |-> FULL_HEALTH * SCALE,
      attacking |-> FALSE,
      target_enemy |-> None,
      is_medic |-> (index = 0 /\ ~is_leader /\ ~is_enemy),
      shielded |-> FALSE,
      shield_timer |-> 0,
      projectile_cooldown |-> 0,
      is_enemy |-> is_enemy,
      state |-> "PATROL" ]

\* the player drone with id a (lines 341-352)
PlayerBoid(a, s) ==
    LET squad_id == (a - 1) \div BOIDS_PER_SQUAD
        k == (a - 1) % BOIDS_PER_SQUAD
        lx == 150 + squad_id * 300
        ly == HEIGHT \div 2
    IN  IF k = 0
        THEN [NewBoid(lx, ly, squad_id, TRUE, 0, FALSE, 7 * a + 3 * s)
                EXCEPT !.waypoints = << <<Px(100 + squad_id * 300), Px(150)>>,
                                        <<Px(100 + squad_id * 300), Px(550)>> >>]
        ELSE [NewBoid(lx + RandInt(-20, 20, 13 * a + 9 * s),
                      ly + RandInt(-20, 20, 40 + 7 * (a % 5) + 11 * s),
                      squad_id, FALSE, k - 1, FALSE, 7 * a + 3 * s)
                EXCEPT !.leader_ref = a - k]

\* start of enemy squad e: randint(WIDTH//4, WIDTH*3//4), randint(HEIGHT//4, HEIGHT*3//4)
EnemyStart(e, s) ==
    << RandInt(WIDTH \div 4, (WIDTH * 3) \div 4, 250 * s + 100 * e),
       RandInt(HEIGHT \div 4, (HEIGHT * 3) \div 4, 165 + 185 * s + 60 * e) >>

\* the enemy drone with id a (lines 359-384)
EnemyBoid(a, s) ==
    LET n == a - NumPlayers - 1
        e == n \div BOIDS_PER_ENEMY_SQUAD
        k == n % BOIDS_PER_ENEMY_SQUAD
        st == EnemyStart(e, s)
    IN  IF k = 0
        THEN [NewBoid(st[1], st[2], ENEMY_START_SQUAD_ID + e, TRUE, 0, TRUE, 7 * a + 3 * s)
                EXCEPT !.waypoints =
                    << <<Px(st[1] + RandInt(-150, 150, 31 * a + 17 * s)),
                         Px(st[2] + RandInt(-150, 150, 57 * a + 29 * s))>>,
                       <<Px(st[1] - RandInt(-150, 150, 91 * a + 5 * s)),
                         Px(st[2] - RandInt(-150, 150, 23 * a + 77 * s))>> >>]
        ELSE [NewBoid(st[1] + RandInt(-20, 20, 20 + 13 * s * a),
                      st[2] + RandInt(-20, 20, 40 + 11 * s * a),
                      ENEMY_START_SQUAD_ID + e, FALSE, k - 1, TRUE, 7 * a + 3 * s)
                EXCEPT !.leader_ref = a - k]

\* what has happened so far; read by no action
NoHistory ==
    [ hits |-> [a \in Agents |-> 0],         \* damaging projectile hits received
      blocked |-> [a \in Agents |-> 0],      \* projectile hits received while shielded
      healed |-> [a \in Agents |-> 0],       \* health received from medics
      activations |-> [a \in Agents |-> 0],  \* successful shield activations
      since |-> [a \in Agents |-> 0],        \* own updates since the last activation
      spawned |-> 0 ]                        \* projectiles created so far

InitFrom(seeds) ==
    \E s \in seeds :
        /\ boid = [a \in Agents |-> IF a <= NumPlayers THEN PlayerBoid(a, s)
                                                        ELSE EnemyBoid(a, s)]
        /\ boids = [i \in Agents |-> i]
        /\ projectiles = <<>>
        /\ tick = 0
        /\ wpCmds = 0
        /\ hist = NoHistory

Init == InitFrom(Seeds)

----------------------------------------------------------------------------
(* Utility functions and vector helpers *)

Add(u, v) == <<u[1] + v[1], u[2] + v[2]>>
Sub(u, v) == <<u[1] - v[1], u[2] - v[2]>>
Mul(num, den, v) == <<Frac(num, den, v[1]), Frac(num, den, v[2])>>

\* spacing * layer etc. are pixel quantities; the result is in fixed-point units
get_formation_offset(index, mode, total) ==
    LET spacing == 30 IN
    IF mode = "V"
    THEN LET layer == (index + 1) \div 2
             side == IF index % 2 = 0 THEN -1 ELSE 1
         IN  <<Px(side * spacing * layer), Px(spacing * layer)>>
    ELSE <<0, 0>>   \* 'CIRCLE' (cos/sin) is never selected: FORMATION_MODE is 'V'

\* min(cands, key=distance to pos): the first of the nearest, in list order
RECURSIVE MinFrom(_, _, _, _, _)
MinFrom(b, pos, cands, i, best) ==
    IF i > Len(cands) THEN best
    ELSE MinFrom(b, pos, cands, i + 1,
                 IF DistSq(pos, b[cands[i]].position) < DistSq(pos, b[best].position)
                 THEN cands[i] ELSE best)

\* a faulty min that returns the last of the nearest
Nearest_last(b, pos, cands) ==
    LET nearest == {i \in 1..Len(cands) : \A j \in 1..Len(cands) :
                        DistSq(pos, b[cands[i]].position) <= DistSq(pos, b[cands[j]].position)}
    IN  cands[CHOOSE i \in nearest : \A j \in nearest : j <= i]

Nearest(b, pos, cands) == MinFrom(b, pos, cands, 2, cands[1])

----------------------------------------------------------------------------
(* Boid behaviours.  w is the world being updated in place:
   w.b the Boid objects, w.ps the projectile list, w.h the history,
   w.drew whether random.uniform was called. *)

\* a faulty heal_ally in which the medic heals itself as well
heal_ally_heals_self(w, self, all_boids) ==
    IF ~w.b[self].is_medic THEN w
    ELSE LET b == w.b
             Healed(o) ==
                 /\ \E i \in 1..Len(all_boids) : all_boids[i] = o
                 /\ b[o].squad_id = b[self].squad_id /\ ~b[o].is_enemy
                 /\ Within(b[self].position, b[o].position, Px(HEAL_RADIUS))
                 /\ b[o].health < FULL_HEALTH * SCALE
             NewHealth(o) ==
                 LET raised == b[o].health + Frac(2, 10, SCALE)
                 IN  IF raised > FULL_HEALTH * SCALE THEN FULL_HEALTH * SCALE ELSE raised
         IN  [w EXCEPT
                !.b = [o \in Agents |->
                          IF Healed(o) THEN [b[o] EXCEPT !.health = NewHealth(o)] ELSE b[o]],
                !.h.healed = [o \in Agents |->
                          IF Healed(o) THEN @[o] + (NewHealth(o) - b[o].health) ELSE @[o]]]

\* Boid.heal_ally
heal_ally(w, self, all_boids) ==
    IF ~w.b[self].is_medic THEN w
    ELSE LET b == w.b
             Healed(o) ==
                 /\ \E i \in 1..Len(all_boids) : all_boids[i] = o
                 /\ b[o].squad_id = b[self].squad_id /\ o # self /\ ~b[o].is_enemy
                 /\ Within(b[self].position, b[o].position, Px(HEAL_RADIUS))
                 /\ b[o].health < FULL_HEALTH * SCALE
             NewHealth(o) ==
                 LET raised == b[o].health + Frac(2, 10, SCALE)
                 IN  IF raised > FULL_HEALTH * SCALE THEN FULL_HEALTH * SCALE ELSE raised
         IN  [w EXCEPT
                !.b = [o \in Agents |->
                          IF Healed(o) THEN [b[o] EXCEPT !.health = NewHealth(o)] ELSE b[o]],
                !.h.healed = [o \in Agents |->
                          IF Healed(o) THEN @[o] + (NewHealth(o) - b[o].health) ELSE @[o]]]

\* a faulty apply_shield that does not wait for the cooldown
apply_shield_no_cooldown(w, self, all_boids) ==
    LET b == w.b IN
    IF b[self].is_leader /\ ~b[self].is_enemy
    THEN LET Member(o) ==
                 /\ \E i \in 1..Len(all_boids) : all_boids[i] = o
                 /\ b[o].squad_id = b[self].squad_id /\ ~b[o].is_leader /\ ~b[o].is_enemy
         IN  [w EXCEPT
                !.b = [o \in Agents |->
                          IF Member(o)
                          THEN [b[o] EXCEPT !.shielded = TRUE, !.shield_timer = SHIELD_DURATION]
                          ELSE IF o = self
                          THEN [b[o] EXCEPT !.shield_timer = SHIELD_COOLDOWN]
                          ELSE b[o]],
                !.h.activations[self] = @ + 1,
                !.h.since[self] = 0]
    ELSE w

\* a faulty apply_shield that shields the followers of every player squad
apply_shield_any_squad(w, self, all_boids) ==
    LET b == w.b IN
    IF b[self].is_leader /\ ~b[self].is_enemy /\ b[self].shield_timer <= 0
    THEN LET Member(o) ==
                 /\ \E i \in 1..Len(all_boids) : all_boids[i] = o
                 /\ ~b[o].is_leader /\ ~b[o].is_enemy
         IN  [w EXCEPT
                !.b = [o \in Agents |->
                          IF Member(o)
                          THEN [b[o] EXCEPT !.shielded = TRUE, !.shield_timer = SHIELD_DURATION]
                          ELSE IF o = self
                          THEN [b[o] EXCEPT !.shield_timer = SHIELD_COOLDOWN]
                          ELSE b[o]],
                !.h.activations[self] = @ + 1,
                !.h.since[self] = 0]
    ELSE w

\* Boid.apply_shield
apply_shield(w, self, all_boids) ==
    LET b == w.b IN
    IF b[self].is_leader /\ ~b[self].is_enemy /\ b[self].shield_timer <= 0
    THEN LET Member(o) ==
                 /\ \E i \in 1..Len(all_boids) : all_boids[i] = o
                 /\ b[o].squad_id = b[self].squad_id /\ ~b[o].is_leader /\ ~b[o].is_enemy
         IN  [w EXCEPT
                !.b = [o \in Agents |->
                          IF Member(o)
                          THEN [b[o] EXCEPT !.shielded = TRUE, !.shield_timer = SHIELD_DURATION]
                          ELSE IF o = self
                          THEN [b[o] EXCEPT !.shield_timer = SHIELD_COOLDOWN]
                          ELSE b[o]],
                !.h.activations[self] = @ + 1,
                !.h.since[self] = 0]
    ELSE w

\* the live agents of the other faction, in roster order (lines 243 and 279)
Opponents(b, self, all_boids) ==
    SelectSeq(all_boids, LAMBDA o : b[o].is_enemy # b[self].is_enemy /\ b[o].health > 0)

\* Boid.handle_patrol
handle_patrol(w, self, all_boids, squad_size) ==
    LET b == w.b
        me == b[self]
        moved ==
            IF me.is_leader
            THEN IF me.waypoints # <<>>
                 THEN LET target == me.waypoints[me.current_wp + 1]
                      IN  IF Within(me.position, target, Px(10))
                          THEN [me EXCEPT !.current_wp = (@ + 1) % Len(me.waypoints)]
                          ELSE [me EXCEPT !.velocity =
                                    Add(@, Mul(5, 100, Sub(target, me.position)))]
                 ELSE me
            ELSE IF me.leader_ref # None /\ b[me.leader_ref].health > 0
                 THEN LET offset == get_formation_offset(me.index_in_squad,
                                                         FORMATION_MODE, squad_size)
                          target == Add(b[me.leader_ref].position, offset)
                      IN  [me EXCEPT !.formation_offset = offset,
                                     !.velocity = Add(@, Mul(4, 100, Sub(target, me.position)))]
                 ELSE [me EXCEPT !.leader_ref = None]
        potential_enemies == Opponents(b, self, all_boids)
        enemies_in_detection_range ==
            SelectSeq(potential_enemies,
                      LAMBDA o : Within(me.position, b[o].position, Px(DETECTION_RANGE)))
    IN  IF enemies_in_detection_range # <<>>
        THEN [w EXCEPT !.b[self] =
                 [moved EXCEPT !.target_enemy =
                                   Nearest(b, me.position, enemies_in_detection_range),
                               !.state = "ENGAGE",
                               !.attacking = TRUE]]
        ELSE [w EXCEPT !.b[self] = moved]

\* Projectile.__init__; serial is the creation number (observation only)
NewProjectile(pos, target_boid, n) ==
    [pos |-> pos, target_boid |-> target_boid, active |-> TRUE, serial |-> n]

\* a faulty handle_engage that drops a lost target without leaving ENGAGE
handle_engage_keeps_engaging(w, self, all_boids) ==
    LET b == w.b
        me == b[self]
        t == me.target_enemy
        engaged ==
            IF t # None /\ b[t].health > 0
            THEN LET moved ==
                         IF Beyond(me.position, b[t].position, Frac(8, 10, Px(FIRING_RANGE)))
                         THEN [me EXCEPT !.velocity =
                                   Add(@, Mul(5, 100, Sub(b[t].position, me.position)))]
                         ELSE [me EXCEPT !.velocity = Mul(9, 10, @)]
                     fires == /\ me.projectile_cooldown = 0
                              /\ ~Beyond(me.position, b[t].position, Px(FIRING_RANGE))
                 IN  IF fires
                     THEN [w EXCEPT
                             !.b[self] = [moved EXCEPT !.projectile_cooldown = PROJECTILE_COOLDOWN],
                             !.ps = Append(@, NewProjectile(me.position, t, w.h.spawned + 1)),
                             !.h.spawned = @ + 1]
                     ELSE [w EXCEPT !.b[self] = moved]
            ELSE [w EXCEPT !.b[self] = [me EXCEPT !.attacking = FALSE,
                                                  !.target_enemy = None]]
    IN  IF me.health < EVADE_HEALTH * SCALE /\ ~me.is_enemy
        THEN [engaged EXCEPT !.b[self].state = "EVADE"]
        ELSE engaged

\* a faulty handle_engage in which an enemy of low health evades too
handle_engage_enemy_evades(w, self, all_boids) ==
    LET b == w.b
        me == b[self]
        t == me.target_enemy
        engaged ==
            IF t # None /\ b[t].health > 0
            THEN LET moved ==
                         IF Beyond(me.position, b[t].position, Frac(8, 10, Px(FIRING_RANGE)))
                         THEN [me EXCEPT !.velocity =
                                   Add(@, Mul(5, 100, Sub(b[t].position, me.position)))]
                         ELSE [me EXCEPT !.velocity = Mul(9, 10, @)]
                     fires == /\ me.projectile_cooldown = 0
                              /\ ~Beyond(me.position, b[t].position, Px(FIRING_RANGE))
                 IN  IF fires
                     THEN [w EXCEPT
                             !.b[self] = [moved EXCEPT !.projectile_cooldown = PROJECTILE_COOLDOWN],
                             !.ps = Append(@, NewProjectile(me.position, t, w.h.spawned + 1)),
                             !.h.spawned = @ + 1]
                     ELSE [w EXCEPT !.b[self] = moved]
            ELSE [w EXCEPT !.b[self] = [me EXCEPT !.attacking = FALSE,
                                                  !.target_enemy = None,
                                                  !.state = "PATROL"]]
    IN  IF me.health < EVADE_HEALTH * SCALE
        THEN [engaged EXCEPT !.b[self].state = "EVADE"]
        ELSE engaged

\* a faulty handle_engage that fires at a target beyond firing range
handle_engage_any_range(w, self, all_boids) ==
    LET b == w.b
        me == b[self]
        t == me.target_enemy
        engaged ==
            IF t # None /\ b[t].health > 0
            THEN LET moved ==
                         IF Beyond(me.position, b[t].position, Frac(8, 10, Px(FIRING_RANGE)))
                         THEN [me EXCEPT !.velocity =
                                   Add(@, Mul(5, 100, Sub(b[t].position, me.position)))]
                         ELSE [me EXCEPT !.velocity = Mul(9, 10, @)]
                     fires == me.projectile_cooldown = 0
                 IN  IF fires
                     THEN [w EXCEPT
                             !.b[self] = [moved EXCEPT !.projectile_cooldown = PROJECTILE_COOLDOWN],
                             !.ps = Append(@, NewProjectile(me.position, t, w.h.spawned + 1)),
                             !.h.spawned = @ + 1]
                     ELSE [w EXCEPT !.b[self] = moved]
            ELSE [w EXCEPT !.b[self] = [me EXCEPT !.attacking = FALSE,
                                                  !.target_enemy = None,
                                                  !.state = "PATROL"]]
    IN  IF me.health < EVADE_HEALTH * SCALE /\ ~me.is_enemy
        THEN [engaged EXCEPT !.b[self].state = "EVADE"]
        ELSE engaged

\* a faulty handle_engage that stays in ENGAGE when its last opponent is gone
handle_engage_stays(w, self, all_boids) ==
    LET b == w.b
        me == b[self]
        t == me.target_enemy
        engaged ==
            IF t # None /\ b[t].health > 0
            THEN LET moved ==
                         IF Beyond(me.position, b[t].position, Frac(8, 10, Px(FIRING_RANGE)))
                         THEN [me EXCEPT !.velocity =
                                   Add(@, Mul(5, 100, Sub(b[t].position, me.position)))]
                         ELSE [me EXCEPT !.velocity = Mul(9, 10, @)]
                     fires == /\ me.projectile_cooldown = 0
                              /\ ~Beyond(me.position, b[t].position, Px(FIRING_RANGE))
                 IN  IF fires
                     THEN [w EXCEPT
                             !.b[self] = [moved EXCEPT !.projectile_cooldown = PROJECTILE_COOLDOWN],
                             !.ps = Append(@, NewProjectile(me.position, t, w.h.spawned + 1)),
                             !.h.spawned = @ + 1]
                     ELSE [w EXCEPT !.b[self] = moved]
            ELSE [w EXCEPT !.b[self] =
                     [me EXCEPT !.attacking = FALSE,
                                !.target_enemy = None,
                                !.state = IF Opponents(b, self, all_boids) = <<>>
                                          THEN @ ELSE "PATROL"]]
    IN  IF me.health < EVADE_HEALTH * SCALE /\ ~me.is_enemy
        THEN [engaged EXCEPT !.b[self].state = "EVADE"]
        ELSE engaged

\* Boid.handle_engage
handle_engage(w, self, all_boids) ==
    LET b == w.b
        me == b[self]
        t == me.target_enemy
        engaged ==
            IF t # None /\ b[t].health > 0
            THEN LET moved ==
                         IF Beyond(me.position, b[t].position, Frac(8, 10, Px(FIRING_RANGE)))
                         THEN [me EXCEPT !.velocity =
                                   Add(@, Mul(5, 100, Sub(b[t].position, me.position)))]
                         ELSE [me EXCEPT !.velocity = Mul(9, 10, @)]
                     fires == /\ me.projectile_cooldown = 0
                              /\ ~Beyond(me.position, b[t].position, Px(FIRING_RANGE))
                 IN  IF fires
                     THEN [w EXCEPT
                             !.b[self] = [moved EXCEPT !.projectile_cooldown = PROJECTILE_COOLDOWN],
                             !.ps = Append(@, NewProjectile(me.position, t, w.h.spawned + 1)),
                             !.h.spawned = @ + 1]
                     ELSE [w EXCEPT !.b[self] = moved]
            ELSE [w EXCEPT !.b[self] = [me EXCEPT !.attacking = FALSE,
                                                  !.target_enemy = None,
                                                  !.state = "PATROL"]]
    IN  IF me.health < EVADE_HEALTH * SCALE /\ ~me.is_enemy
        THEN [engaged EXCEPT !.b[self].state = "EVADE"]
        ELSE engaged

\* Boid.handle_evade; rnd is the pair of random.uniform(-1, 1) draws
handle_evade(w, self, all_boids, rnd) ==
    LET b == w.b
        me == b[self]
        threats ==
            SelectSeq(Opponents(b, self, all_boids),
                      LAMBDA o : Within(me.position, b[o].position,
                                        Frac(15, 10, Px(DETECTION_RANGE))))
    IN  IF threats # <<>>
        THEN LET closest_threat == Nearest(b, me.position, threats)
                 v == Add(me.velocity, Mul(1, 10, Sub(me.position, b[closest_threat].position)))
                 half == Quot(MAX_SPEED * SCALE, 2)
                 slow == v[1] * v[1] + v[2] * v[2] < half * half
                 speed == Hypot(v)
             IN  IF ~slow THEN [w EXCEPT !.b[self].velocity = v]
                 ELSE IF v # <<0, 0>>
                 THEN [w EXCEPT !.b[self].velocity =
                          <<Quot(v[1] * half, speed), Quot(v[2] * half, speed)>>]
                 ELSE [w EXCEPT !.b[self].velocity =
                          <<Quot(rnd[1] * MAX_SPEED, 2), Quot(rnd[2] * MAX_SPEED, 2)>>,
                                !.drew = TRUE]
        ELSE [w EXCEPT !.b[self].state = "PATROL"]

\* one pass over the roster for the flocking sums of Boid.update (lines 180-198):
\* <<number of neighbors, sum of their positions, sum of their velocities,
\*   sum of the separation pushes>>
RECURSIVE FlockSums(_, _, _, _, _)
FlockSums(b, self, all_boids, i, acc) ==
    IF i > Len(all_boids) THEN acc
    ELSE LET o == all_boids[i]
             p == b[self].position
             q == b[o].position
             d == DistSq(p, q)
         IN  FlockSums(b, self, all_boids, i + 1,
                IF o = self \/ d >= Px(NEIGHBOR_RADIUS) * Px(NEIGHBOR_RADIUS) THEN acc
                ELSE << acc[1] + 1,
                        Add(acc[2], q),
                        Add(acc[3], b[o].velocity),
                        IF d < Px(AVOID_RADIUS) * Px(AVOID_RADIUS)
                        THEN Add(acc[4], Mul(5, 100, Sub(p, q)))
                        ELSE acc[4] >>)

\* the flocking forces of Boid.update (lines 178-198) on the velocity of self
Flocking(b, self, all_boids) ==
    LET me == b[self]
        sums == FlockSums(b, self, all_boids, 1, <<0, <<0, 0>>, <<0, 0>>, <<0, 0>> >>)
        n == sums[1]
        avg_pos == <<Quot(sums[2][1], n), Quot(sums[2][2], n)>>
        avg_vel == <<Quot(sums[3][1], n), Quot(sums[3][2], n)>>
        cohesion == Add(me.velocity, Mul(1, 100, Sub(avg_pos, me.position)))
        alignment == Add(cohesion, Mul(5, 100, Sub(avg_vel, cohesion)))
    IN  IF n = 0 THEN me.velocity ELSE Add(alignment, sums[4])

\* a faulty "Cap speed" that leaves the velocity as it is
CapSpeed_off(v) == v

\* "Cap speed" of Boid.update (lines 200-204)
CapSpeed(v) ==
    LET top == MAX_SPEED * SCALE
        speed == Hypot(v)
    IN  IF v[1] * v[1] + v[2] * v[2] > top * top
        THEN <<Quot(v[1] * top, speed), Quot(v[2] * top, speed)>>
        ELSE v

\* position after integration and wrap-around (lines 206-212)
Wrap(p) == <<p[1] % Px(WIDTH), p[2] % Px(HEIGHT)>>

\* a faulty Boid.update that does not drop the shield when its timer runs out
Boid_update_shield_stays(w, self, all_boids, squad_size, rnd) ==
    IF w.b[self].health <= 0 THEN w
    ELSE
    LET me == w.b[self]
        cooldown == IF me.projectile_cooldown > 0 THEN me.projectile_cooldown - 1
                                                  ELSE me.projectile_cooldown
        timer == IF me.shield_timer > 0 THEN me.shield_timer - 1 ELSE me.shield_timer
        w1 == [w EXCEPT !.b[self] =
                  [me EXCEPT !.projectile_cooldown = cooldown,
                             !.shield_timer = timer],
                        !.h.since[self] = @ + 1]
        w2 == IF me.state = "PATROL" THEN handle_patrol(w1, self, all_boids, squad_size)
              ELSE IF me.state = "ENGAGE" THEN handle_engage(w1, self, all_boids)
              ELSE IF me.state = "EVADE" THEN handle_evade(w1, self, all_boids, rnd)
              ELSE w1
        v == CapSpeed(Flocking(w2.b, self, all_boids))
        w3 == [w2 EXCEPT !.b[self].velocity = v,
                         !.b[self].position = Wrap(Add(@, v))]
    IN  heal_ally(w3, self, all_boids)

\* Boid.update
Boid_update(w, self, all_boids, squad_size, rnd) ==
    IF w.b[self].health <= 0 THEN w
    ELSE
    LET me == w.b[self]
        cooldown == IF me.projectile_cooldown > 0 THEN me.projectile_cooldown - 1
                                                  ELSE me.projectile_cooldown
        timer == IF me.shield_timer > 0 THEN me.shield_timer - 1 ELSE me.shield_timer
        w1 == [w EXCEPT !.b[self] =
                  [me EXCEPT !.projectile_cooldown = cooldown,
                             !.shield_timer = timer,
                             !.shielded = IF @ /\ timer <= 0 THEN FALSE ELSE @],
                        !.h.since[self] = @ + 1]
        w2 == IF me.state = "PATROL" THEN handle_patrol(w1, self, all_boids, squad_size)
              ELSE IF me.state = "ENGAGE" THEN handle_engage(w1, self, all_boids)
              ELSE IF me.state = "EVADE" THEN handle_evade(w1, self, all_boids, rnd)
              ELSE w1
        v == CapSpeed(Flocking(w2.b, self, all_boids))
        w3 == [w2 EXCEPT !.b[self].velocity = v,
                         !.b[self].position = Wrap(Add(@, v))]
    IN  heal_ally(w3, self, all_boids)

\* a faulty Projectile.update that keeps flying a projectile that is inactive
Projectile_update_revives(w, i) ==
    LET p == w.ps[i]
        t == p.target_boid
    IN  IF w.b[t].health <= 0
        THEN [w EXCEPT !.ps[i].active = FALSE]
        ELSE
        LET target == w.b[t].position
            d == Sub(target, p.pos)
            dist == distance(p.pos, target)
            velocity == IF d # <<0, 0>>
                        THEN <<Quot(d[1] * PROJECTILE_SPEED * SCALE, dist),
                               Quot(d[2] * PROJECTILE_SPEED * SCALE, dist)>>
                        ELSE <<0, 0>>
            pos == Add(p.pos, velocity)
        IN  IF Within(pos, target, Px(BOID_RADIUS))
            THEN IF ~w.b[t].shielded
                 THEN [w EXCEPT !.ps[i].pos = pos, !.ps[i].active = FALSE,
                                !.b[t].health = @ - PROJECTILE_DAMAGE * SCALE,
                                !.h.hits[t] = @ + 1]
                 ELSE [w EXCEPT !.ps[i].pos = pos, !.ps[i].active = FALSE,
                                !.h.blocked[t] = @ + 1]
            ELSE [w EXCEPT !.ps[i].pos = pos, !.ps[i].active = TRUE]

\* a faulty Projectile.update whose hits take 10 instead of 5
Projectile_update_double_damage(w, i) ==
    LET p == w.ps[i]
        t == p.target_boid
    IN  IF ~p.active \/ w.b[t].health <= 0
        THEN [w EXCEPT !.ps[i].active = FALSE]
        ELSE
        LET target == w.b[t].position
            d == Sub(target, p.pos)
            dist == distance(p.pos, target)
            velocity == IF d # <<0, 0>>
                        THEN <<Quot(d[1] * PROJECTILE_SPEED * SCALE, dist),
                               Quot(d[2] * PROJECTILE_SPEED * SCALE, dist)>>
                        ELSE <<0, 0>>
            pos == Add(p.pos, velocity)
        IN  IF Within(pos, target, Px(BOID_RADIUS))
            THEN IF ~w.b[t].shielded
                 THEN [w EXCEPT !.ps[i].pos = pos, !.ps[i].active = FALSE,
                                !.b[t].health = @ - 2 * PROJECTILE_DAMAGE * SCALE,
                                !.h.hits[t] = @ + 1]
                 ELSE [w EXCEPT !.ps[i].pos = pos, !.ps[i].active = FALSE,
                                !.h.blocked[t] = @ + 1]
            ELSE [w EXCEPT !.ps[i].pos = pos]

\* a faulty Projectile.update whose hits go through the shield
Projectile_update_through_shield(w, i) ==
    LET p == w.ps[i]
        t == p.target_boid
    IN  IF ~p.active \/ w.b[t].health <= 0
        THEN [w EXCEPT !.ps[i].active = FALSE]
        ELSE
        LET target == w.b[t].position
            d == Sub(target, p.pos)
            dist == distance(p.pos, target)
            velocity == IF d # <<0, 0>>
                        THEN <<Quot(d[1] * PROJECTILE_SPEED * SCALE, dist),
                               Quot(d[2] * PROJECTILE_SPEED * SCALE, dist)>>
                        ELSE <<0, 0>>
            pos == Add(p.pos, velocity)
        IN  IF Within(pos, target, Px(BOID_RADIUS))
            THEN [w EXCEPT !.ps[i].pos = pos, !.ps[i].active = FALSE,
                           !.b[t].health = @ - PROJECTILE_DAMAGE * SCALE,
                           !.h.hits[t] = IF w.b[t].shielded THEN @ ELSE @ + 1,
                           !.h.blocked[t] = IF w.b[t].shielded THEN @ + 1 ELSE @]
            ELSE [w EXCEPT !.ps[i].pos = pos]

\* Projectile.update of the i-th projectile of the list
Projectile_update(w, i) ==
    LET p == w.ps[i]
        t == p.target_boid
    IN  IF ~p.active \/ w.b[t].health <= 0
        THEN [w EXCEPT !.ps[i].active = FALSE]
        ELSE
        LET target == w.b[t].position
            d == Sub(target, p.pos)
            dist == distance(p.pos, target)
            velocity == IF d # <<0, 0>>
                        THEN <<Quot(d[1] * PROJECTILE_SPEED * SCALE, dist),
                               Quot(d[2] * PROJECTILE_SPEED * SCALE, dist)>>
                        ELSE <<0, 0>>
            pos == Add(p.pos, velocity)
        IN  IF Within(pos, target, Px(BOID_RADIUS))
            THEN IF ~w.b[t].shielded
                 THEN [w EXCEPT !.ps[i].pos = pos, !.ps[i].active = FALSE,
                                !.b[t].health = @ - PROJECTILE_DAMAGE * SCALE,
                                !.h.hits[t] = @ + 1]
                 ELSE [w EXCEPT !.ps[i].pos = pos, !.ps[i].active = FALSE,
                                !.h.blocked[t] = @ + 1]
            ELSE [w EXCEPT !.ps[i].pos = pos]

----------------------------------------------------------------------------
(* The game loop *)

RECURSIVE UpdateBoids(_, _, _, _)
UpdateBoids(w, all_boids, i, rnd) ==
    IF i > Len(all_boids) THEN w
    ELSE UpdateBoids(Boid_update(w, all_boids[i], all_boids, BOIDS_PER_SQUAD, rnd),
                     all_boids, i + 1, rnd)

RECURSIVE UpdateProjectiles(_, _)
UpdateProjectiles(w, i) ==
    IF i > Len(w.ps) THEN w ELSE UpdateProjectiles(Projectile_update(w, i), i + 1)

\* a faulty frame that does not filter the dead out of the list of boids
Frame_keeps_dead(rnd) ==
    LET active == SelectSeq(projectiles, LAMBDA p : p.active)
        w0 == [b |-> boid, ps |-> active, h |-> hist, drew |-> FALSE]
    IN  [roster |-> boids, w |-> UpdateProjectiles(UpdateBoids(w0, boids, 1, rnd), 1)]

\* lines 421-436: filter the lists, update the boids, update the projectiles
Frame(rnd) ==
    LET live == SelectSeq(boids, LAMBDA a : boid[a].health > 0)
        active == SelectSeq(projectiles, LAMBDA p : p.active)
        w0 == [b |-> boid, ps |-> active, h |-> hist, drew |-> FALSE]
    IN  [roster |-> live, w |-> UpdateProjectiles(UpdateBoids(w0, live, 1, rnd), 1)]

\* the values random.uniform(-1, 1) may return in handle_evade
RandomDraws == {<<x, y>> : x \in {-SCALE, 0, SCALE}, y \in {-SCALE, 0, SCALE}}

\* one iteration of the game loop without events; the frame is computed once
\* for the draw <<0, 0>> and again for every other draw only if a draw was made
TickUpTo(cap) ==
    /\ tick < cap
    /\ \E f0 \in {Frame(<<0, 0>>)} :
       \E rnd \in IF f0.w.drew THEN RandomDraws ELSE {<<0, 0>>} :
       \E f \in {IF rnd = <<0, 0>> THEN f0 ELSE Frame(rnd)} :
        /\ boids' = f.roster
        /\ boid' = f.w.b
        /\ projectiles' = f.w.ps
        /\ hist' = f.w.h
    /\ tick' = tick + 1
    /\ UNCHANGED wpCmds

Tick == TickUpTo(MaxTicks)

\* left mouse button at pos (lines 397-402): every player leader of the list
\* within two radii of the click applies its shield
RECURSIVE ShieldClicked(_, _, _)
ShieldClicked(w, pos, i) ==
    IF i > Len(boids) THEN w
    ELSE LET a == boids[i]
         IN  ShieldClicked(
                IF /\ w.b[a].is_leader /\ ~w.b[a].is_enemy
                   /\ Within(w.b[a].position, pos, Px(BOID_RADIUS * 2))
                THEN apply_shield(w, a, boids) ELSE w,
                pos, i + 1)

LeftClickAt(pos) ==
    \E w \in {ShieldClicked([b |-> boid, ps |-> projectiles, h |-> hist, drew |-> FALSE],
                            pos, 1)} :
        /\ boid' = w.b
        /\ hist' = w.h
        /\ UNCHANGED <<boids, projectiles, tick, wpCmds>>

\* right mouse button at pos (lines 403-417): the closest player leader of the
\* list gets the single waypoint pos
PlayerLeaders == SelectSeq(boids, LAMBDA a : boid[a].is_leader /\ ~boid[a].is_enemy)

\* a faulty waypoint command that leaves the leader in the state it is in
SetWaypoint_keeps_state(b, closest_leader, pos) ==
    [b EXCEPT ![closest_leader].waypoints = <<pos>>,
              ![closest_leader].current_wp = 0]

\* lines 414-417: the leader found gets the single waypoint pos
SetWaypoint(b, closest_leader, pos) ==
    [b EXCEPT ![closest_leader].waypoints = <<pos>>,
              ![closest_leader].current_wp = 0,
              ![closest_leader].state = "PATROL"]

RightClickAt(pos) ==
    /\ wpCmds < MaxWaypointCmds
    /\ wpCmds' = wpCmds + 1
    /\ IF PlayerLeaders # <<>>
       THEN boid' = SetWaypoint(boid, Nearest(boid, pos, PlayerLeaders), pos)
       ELSE UNCHANGED boid
    /\ UNCHANGED <<boids, projectiles, tick, hist>>

\* the mouse positions explored: the start of either player leader and the
\* first waypoint of the first
ClickPoints ==
    { <<Px(150), Px(HEIGHT \div 2)>>, <<Px(450), Px(HEIGHT \div 2)>>,
      <<Px(100), Px(150)>> }

LeftClick == \E pos \in ClickPoints : LeftClickAt(pos)

RightClick == \E pos \in ClickPoints : RightClickAt(pos)

Next == Tick \/ LeftClick \/ RightClick

Spec == Init /\ [][Next]_vars

\* A longer battle in which the player only left-clicks, at the start of the
\* second player leader and at a point that leader holds late in the battle
BattleClickPoints == {<<Px(450), Px(HEIGHT \div 2)>>, <<Px(545), Px(368)>>}

InitBattle == InitFrom(BattleSeeds)

TickBattle == TickUpTo(MaxBattleTicks)

LeftClickBattle == \E pos \in BattleClickPoints : LeftClickAt(pos)

NextBattle == TickBattle \/ LeftClickBattle

SpecBattle == InitBattle /\ [][NextBattle]_vars

\* A battle fought to the end without any mouse event
InitLong == InitFrom(LongSeeds)

TickLong == TickUpTo(MaxLongTicks)

NextLong == TickLong

SpecLong == InitLong /\ [][NextLong]_vars

----------------------------------------------------------------------------
(* The position update in floating point (lines 206-212).

   The fixed-point grid of the model above is uniform, so a sum on it is exact
   and so is `%`.  Python floats are not uniform: a float near 0 can be far
   smaller than the spacing of the floats near WIDTH, and `x % WIDTH` of a
   negative x is computed as fmod(x, WIDTH) + WIDTH, rounded.  This section
   models that on a miniature of binary floating point: integers whose
   significand has MantissaBits bits, rounded to nearest, ties to even. *)

RECURSIVE UlpFrom(_, _)
UlpFrom(a, u) == IF a < (2 ^ MantissaBits) * u THEN u ELSE UlpFrom(a, 2 * u)

\* spacing of the floats at magnitude a
Ulp(a) == UlpFrom(a, 1)

\* the float nearest to v
RoundFloat(v) ==
    LET a == IF v < 0 THEN -v ELSE v
        u == Ulp(a)
        q == a \div u
        r == a % u
        m == IF 2 * r > u \/ (2 * r = u /\ q % 2 = 1) THEN (q + 1) * u ELSE q * u
    IN  IF v < 0 THEN -m ELSE m

\* C fmod: exact, with the sign of x
fmod(x, m) == IF x >= 0 THEN x % m ELSE -((-x) % m)

\* Python's x % m on floats, m > 0
PyMod(x, m) ==
    LET mod == fmod(x, m)
    IN  IF mod < 0 THEN RoundFloat(mod + m) ELSE mod

\* lines 207-212 on one Boid object
IntegrateAndWrap(me) ==
    [me EXCEPT !.position =
        << PyMod(RoundFloat(me.position[1] + me.velocity[1]), Px(WIDTH)),
           PyMod(RoundFloat(me.position[2] + me.velocity[2]), Px(HEIGHT)) >>]

\* positions next to the edges of the world and velocities up to MAX_SPEED,
\* all of them floats of the miniature
EdgeX == {0, 1, 2, 3, 20, Px(WIDTH) - 8, Px(WIDTH) - 4}
EdgeY == {0, 1, 3, Px(HEIGHT) - 2}
EdgeVelocities == {-(MAX_SPEED * SCALE), -3, -2, -1, 0, 4, MAX_SPEED * SCALE}

InitWrap ==
    \E x \in EdgeX : \E y \in EdgeY : \E vx \in EdgeVelocities : \E vy \in {-1, 0, 4} :
        /\ boid = [a \in Agents |->
                     IF a = 1
                     THEN [PlayerBoid(a, 0) EXCEPT !.position = <<x, y>>,
                                                   !.velocity = <<vx, vy>>]
                     ELSE IF a <= NumPlayers THEN PlayerBoid(a, 0) ELSE EnemyBoid(a, 0)]
        /\ boids = [i \in Agents |-> i]
        /\ projectiles = <<>>
        /\ tick = 0
        /\ wpCmds = 0
        /\ hist = NoHistory

\* the first boid integrates its velocity and wraps, once
WrapStep ==
    /\ tick < 1
    /\ boid' = [boid EXCEPT ![1] = IntegrateAndWrap(@)]
    /\ tick' = tick + 1
    /\ UNCHANGED <<boids, projectiles, wpCmds, hist>>

NextWrap == WrapStep

SpecWrap == InitWrap /\ [][NextWrap]_vars

----------------------------------------------------------------------------
(* Properties *)

Followers == {a \in Agents : ~boid[a].is_leader}
Live(a) == boid[a].health > 0
Opposed(a, o) == boid[a].is_enemy # boid[o].is_enemy
InRoster(a) == \E i \in 1..Len(boids) : boids[i] = a

\* the V offset as the specification words it: layer = ceiling((index+1)/2)
SpecOffsetV(index) ==
    LET layer == (index + 2) \div 2
        side == IF index % 2 = 0 THEN -1 ELSE 1
    IN  <<Px(side * 30 * layer), Px(30 * layer)>>

\* C1: for every follower index the V formation offset is
\* (side*30*layer, 30*layer) with layer = ceiling((index+1)/2), so that index 0
\* yields (-30, 30), index 1 (30, 30) and index 2 (-60, 60); stated of the
\* offsets the followers hold once they have run their first patrol step.
C1_FormationOffsetV ==
    tick >= 1 =>
        \A a \in Followers : boid[a].formation_offset = SpecOffsetV(boid[a].index_in_squad)

\* C2: in every reachable state every agent's health lies in [0, 100].
C2_HealthInRange ==
    \A a \in Agents : 0 <= boid[a].health /\ boid[a].health <= FULL_HEALTH * SCALE

\* C3: an agent with health <= 0 performs no update (its record is not
\* changed by a tick) and is not used by any other agent as target, heal
\* recipient or shield recipient: no step changes its health, shield flag or
\* shield timer, makes it the target of an agent or aims a new projectile at it.
C3_DeadAgentsInert ==
    [][\A a \in Agents : boid[a].health <= 0 =>
          /\ boid'[a] = boid[a]
          /\ \A o \in Agents \ {a} :
                boid'[o].target_enemy = a => boid[o].target_enemy = a
          /\ \A i \in 1..Len(projectiles') :
                (projectiles'[i].target_boid = a /\ projectiles'[i].active)
                    => \E j \in 1..Len(projectiles) :
                          projectiles[j].serial = projectiles'[i].serial]_vars

\* the current state as the world record the behaviours work on
World == [b |-> boid, ps |-> projectiles, h |-> hist, drew |-> FALSE]
SameShield(b1, b2, o) ==
    b1[o].shielded = b2[o].shielded /\ b1[o].shield_timer = b2[o].shield_timer

\* C4: apply_shield invoked on a player leader of the list whose shield_timer
\* is <= 0 leaves every non-leader player agent of the list with the same
\* squad_id with shielded = TRUE and shield_timer = 180, leaves the leader with
\* shield_timer = 600, and leaves the shield flag and timer of every agent of
\* another squad or of the enemy faction as they were.
C4_ActivateShield ==
    \A l \in Agents :
        (InRoster(l) /\ boid[l].is_leader /\ ~boid[l].is_enemy /\ boid[l].shield_timer <= 0)
        => LET after == apply_shield(World, l, boids).b
           IN  /\ \A o \in Agents :
                    (InRoster(o) /\ ~boid[o].is_leader /\ ~boid[o].is_enemy
                        /\ boid[o].squad_id = boid[l].squad_id)
                    => after[o].shielded /\ after[o].shield_timer = SHIELD_DURATION
               /\ after[l].shield_timer = SHIELD_COOLDOWN
               /\ \A o \in Agents :
                    (boid[o].squad_id # boid[l].squad_id \/ boid[o].is_enemy)
                    => SameShield(after, boid, o)

\* a state right after a left click activated a shield: the leader's cooldown
\* has just been set, its followers are shielded, the other squad is not
C4_Activated ==
    \E l \in Agents :
        /\ hist.activations[l] = 1 /\ hist.since[l] = 0
        /\ boid[l].shield_timer = SHIELD_COOLDOWN
        /\ \E o \in Followers :
              /\ boid[o].squad_id = boid[l].squad_id
              /\ boid[o].shielded /\ boid[o].shield_timer = SHIELD_DURATION
        /\ \E o \in Followers :
              ~boid[o].is_enemy /\ boid[o].squad_id # boid[l].squad_id /\ ~boid[o].shielded

\* C5: apply_shield invoked on an agent of the list whose shield_timer is > 0,
\* or that is an enemy or not a leader, changes no agent's shield flag or
\* shield timer; and a leader that has activated its shield activates it again
\* only after at least 600 of its own updates.
C5_ShieldCooldown ==
    /\ [](\A a \in Agents :
            (InRoster(a) /\ (boid[a].shield_timer > 0 \/ boid[a].is_enemy \/ ~boid[a].is_leader))
            => \A o \in Agents : SameShield(apply_shield(World, a, boids).b, boid, o))
    /\ [][\A l \in Agents :
            (hist.activations[l] >= 1 /\ hist'.activations[l] > hist.activations[l])
            => hist.since[l] >= SHIELD_COOLDOWN]_vars

\* a leader has activated its shield for the second time
C5_SecondActivation ==
    \E l \in Agents : hist.activations[l] = 2 /\ boid[l].shield_timer = SHIELD_COOLDOWN

\* C6: a projectile that reaches its target while the target is shielded
\* leaves the target's health as it was and is deactivated all the same (no
\* projectile stays active within a radius of its target); no step lowers the
\* health of an agent that is shielded when the projectiles are updated.
C6_ShieldNegatesHit ==
    [][/\ \A a \in Agents :
            /\ boid'[a].shielded =>
                  boid'[a].health >= boid[a].health /\ hist'.hits[a] = hist.hits[a]
            /\ hist'.blocked[a] > hist.blocked[a] => boid'[a].shielded
       /\ \A i \in 1..Len(projectiles') :
            projectiles'[i].active =>
                ~Within(projectiles'[i].pos, boid'[projectiles'[i].target_boid].position,
                        Px(BOID_RADIUS))]_vars

\* a shielded agent has been reached by a projectile and has kept full health
C6_BlockedHit ==
    \E a \in Agents :
        hist.blocked[a] > 0 /\ boid[a].shielded /\ boid[a].health = FULL_HEALTH * SCALE

\* C7: every projectile hit on an unshielded live target takes exactly 5 from
\* its health (an agent's health is 100 less 5 per hit plus what medics gave
\* it); an agent that started at 100 and took 20 such hits without healing has
\* health <= 0, and an agent with health <= 0 is not in the list after the
\* next roster filter.
C7_DamagePerHit ==
    /\ [](\A a \in Agents :
            /\ boid[a].health = FULL_HEALTH * SCALE
                                  - PROJECTILE_DAMAGE * SCALE * hist.hits[a] + hist.healed[a]
            /\ (hist.hits[a] >= 20 /\ hist.healed[a] = 0) => boid[a].health <= 0)
    /\ [][tick' = tick + 1 =>
            \A a \in Agents : boid[a].health <= 0 => a \notin Range(boids')]_vars

\* an agent has taken 20 hits without healing, is at health 0 and off the list
C7_TwentyHits ==
    \E a \in Agents :
        /\ hist.hits[a] = 20 /\ hist.healed[a] = 0 /\ hist.blocked[a] = 0
        /\ boid[a].health = 0 /\ ~InRoster(a)

\* C8: a projectile becomes inactive only in a step in which it has reached
\* its target or its target has health <= 0; a projectile that is inactive
\* stays as it is in every step while it is on the list, its update changes
\* nothing at all (no move, no damage, no reactivation), and every active
\* projectile of the list was active before the step or was created in it.
C8_InactiveForGood ==
    /\ [](\A i \in 1..Len(projectiles) :
            ~projectiles[i].active => Projectile_update(World, i) = World)
    /\ [][/\ \A i \in 1..Len(projectiles) : \A j \in 1..Len(projectiles') :
                projectiles'[j].serial = projectiles[i].serial =>
                    LET p == projectiles[i]
                        q == projectiles'[j]
                    IN  /\ ~p.active => q = p
                        /\ (p.active /\ ~q.active) =>
                              \/ Within(q.pos, boid'[q.target_boid].position, Px(BOID_RADIUS))
                              \/ boid'[q.target_boid].health <= 0
          /\ \A j \in 1..Len(projectiles') :
                projectiles'[j].active =>
                    \/ projectiles'[j].serial > hist.spawned
                    \/ \E i \in 1..Len(projectiles) :
                          /\ projectiles[i].serial = projectiles'[j].serial
                          /\ projectiles[i].active]_vars

\* the list holds a projectile that went inactive short of its target because
\* the target had died, and one that went inactive by hitting
C8_BothEnds ==
    /\ \E i \in 1..Len(projectiles) :
          /\ ~projectiles[i].active
          /\ boid[projectiles[i].target_boid].health <= 0
          /\ ~Within(projectiles[i].pos, boid[projectiles[i].target_boid].position,
                     Px(BOID_RADIUS))
    /\ \E i \in 1..Len(projectiles) :
          /\ ~projectiles[i].active
          /\ Within(projectiles[i].pos, boid[projectiles[i].target_boid].position,
                    Px(BOID_RADIUS))

NoLiveOpponent(a) == \A o \in Agents : (InRoster(o) /\ Opposed(a, o)) => ~Live(o)
LiveRoster == SelectSeq(boids, Live)
States == {"PATROL", "ENGAGE", "EVADE"}

\* C9: while the list holds no live agent of the other faction, a live agent
\* with health >= 30 is in PATROL after one tick whatever state it is in
\* (its update leaves it in PATROL from each of PATROL, ENGAGE and EVADE), and
\* an agent in PATROL stays in PATROL.
C9_BackToPatrol ==
    /\ [](\A a \in Agents :
            (InRoster(a) /\ Live(a) /\ NoLiveOpponent(a)
                /\ boid[a].health >= EVADE_HEALTH * SCALE)
            => \A st \in States : \A rnd \in RandomDraws :
                  Boid_update([World EXCEPT !.b[a].state = st], a, LiveRoster,
                              BOIDS_PER_SQUAD, rnd).b[a].state = "PATROL")
    /\ [][\A a \in Agents :
            (InRoster(a) /\ Live(a) /\ NoLiveOpponent(a)) =>
                /\ (tick' = tick + 1 /\ boid[a].health >= EVADE_HEALTH * SCALE)
                      => boid'[a].state = "PATROL"
                /\ boid[a].state = "PATROL" => boid'[a].state = "PATROL"]_vars

\* the battle is won: no enemy is alive, and a player agent that fired within
\* the last 60 ticks has dropped its target and is back in PATROL
C9_Returned ==
    /\ \A o \in Agents : boid[o].is_enemy => ~Live(o)
    /\ \E a \in Agents :
          /\ InRoster(a) /\ ~boid[a].is_enemy /\ boid[a].health >= EVADE_HEALTH * SCALE
          /\ boid[a].state = "PATROL" /\ ~boid[a].attacking /\ boid[a].target_enemy = None
          /\ boid[a].projectile_cooldown > 0

\* position of agent a in the list of live agents
RosterIndex(a) == CHOOSE i \in 1..Len(LiveRoster) : LiveRoster[i] = a
\* the live agents of the other faction within detection range of a
Candidates(a) ==
    {o \in Range(LiveRoster) :
        /\ Opposed(a, o) /\ Live(o)
        /\ Within(boid[a].position, boid[o].position, Px(DETECTION_RANGE))}
\* o is at minimum distance of a among its candidates
Closest(a, o) ==
    \A c \in Candidates(a) :
        DistSq(boid[a].position, boid[o].position) <= DistSq(boid[a].position, boid[c].position)
\* the candidate the claim names: of minimum distance, the first in the list
Chosen(a) ==
    CHOOSE o \in Candidates(a) :
        /\ Closest(a, o)
        /\ \A c \in Candidates(a) : Closest(a, c) => RosterIndex(o) <= RosterIndex(c)

\* C10: on any list of live agents, handle_patrol of an agent in PATROL sets
\* target_enemy to the live agent of the other faction within detection range
\* that is at minimum distance, the first in list order among several at that
\* distance, and sets the state to ENGAGE; without such an agent it leaves
\* target_enemy and state as they were.  The first agent of the list, whose
\* update sees the list as the tick finds it, ends the tick with that target.
C10_PatrolTarget ==
    /\ [](\A a \in Range(LiveRoster) :
            boid[a].state = "PATROL" =>
                LET after == handle_patrol(World, a, LiveRoster, BOIDS_PER_SQUAD).b[a]
                IN  IF Candidates(a) # {}
                    THEN after.target_enemy = Chosen(a) /\ after.state = "ENGAGE"
                    ELSE /\ after.target_enemy = boid[a].target_enemy
                         /\ after.state = boid[a].state)
    /\ [][(tick' = tick + 1 /\ LiveRoster # <<>>) =>
            LET a == LiveRoster[1]
            IN  (boid[a].state = "PATROL" /\ Candidates(a) # {}) =>
                    boid'[a].target_enemy = Chosen(a) /\ boid'[a].state = "ENGAGE"]_vars

\* an agent in PATROL has several candidates at the same minimum distance and
\* its patrol step picks the one that comes first in the list
C10_Tie ==
    \E a \in Range(LiveRoster) :
        /\ boid[a].state = "PATROL"
        /\ \E o \in Candidates(a) : \E c \in Candidates(a) :
              /\ o # c /\ Closest(a, o) /\ Closest(a, c)
              /\ RosterIndex(o) < RosterIndex(c)
              /\ handle_patrol(World, a, LiveRoster, BOIDS_PER_SQUAD).b[a].target_enemy = o

\* the waypoint indices a leader may hold before a command
PriorIndices(l) == {0} \cup (0..(Len(boid[l].waypoints) - 1))

\* C11: the waypoint command on a player leader, in whichever of PATROL,
\* ENGAGE and EVADE the leader is and whatever its waypoint list and index
\* were, leaves it with the waypoint list of exactly the new point, index 0 and
\* state PATROL; every right click handled leaves one player leader so and
\* changes no other agent.
C11_SetWaypoint ==
    /\ [](\A l \in Range(PlayerLeaders) : \A pos \in ClickPoints :
          \A st \in States : \A i \in PriorIndices(l) :
            LET after == SetWaypoint([boid EXCEPT ![l].state = st, ![l].current_wp = i],
                                     l, pos)[l]
            IN  after.waypoints = <<pos>> /\ after.current_wp = 0 /\ after.state = "PATROL")
    /\ [][wpCmds' = wpCmds + 1 =>
            \E l \in Range(PlayerLeaders) : \E pos \in ClickPoints :
                /\ boid'[l].waypoints = <<pos>>
                /\ boid'[l].current_wp = 0
                /\ boid'[l].state = "PATROL"
                /\ \A o \in Agents \ {l} : boid'[o] = boid[o]]_vars

\* a leader that was engaging (it still has its target) has been given a
\* waypoint: its two patrol points are replaced by the one point, it is in PATROL
C11_CommandedWhileEngaged ==
    \E l \in Range(PlayerLeaders) :
        /\ wpCmds = 1
        /\ Len(boid[l].waypoints) = 1 /\ boid[l].waypoints[1] \in ClickPoints
        /\ boid[l].current_wp = 0 /\ boid[l].state = "PATROL"
        /\ boid[l].attacking /\ boid[l].target_enemy # None

\* the health the claim gives agent o after a heal by medic m standing at mpos,
\* in the world with Boid objects b
HealDue(b, m, o, mpos) ==
    /\ ~b[o].is_enemy /\ b[o].squad_id = b[m].squad_id /\ o # m
    /\ Within(mpos, b[o].position, Px(HEAL_RADIUS))
    /\ b[o].health < FULL_HEALTH * SCALE
HealedHealth(h) ==
    IF h + Frac(2, 10, SCALE) > FULL_HEALTH * SCALE THEN FULL_HEALTH * SCALE
                                                   ELSE h + Frac(2, 10, SCALE)
\* the Boid objects with the health of every live agent set to h
WithHealth(h) ==
    [o \in Agents |-> IF Live(o) THEN [boid[o] EXCEPT !.health = h] ELSE boid[o]]
\* damaged, one step from full, full
Healths == {(FULL_HEALTH * SCALE) \div 2, FULL_HEALTH * SCALE - 1, FULL_HEALTH * SCALE}

\* C12: the update of a live medic, in whichever state it is, changes of the
\* other agents only the health of those that are non-enemy, of the medic's
\* squad, within 60 of it and below 100, each by +0.2 clamped at 100, and does
\* not change the medic's own health; the update of an agent that is not a
\* medic changes no other agent.  The same holds of heal_ally when every live
\* agent (the medic itself, the other squad and the enemies included) is
\* damaged, one step from full health, or at full health.  In every step an
\* agent's heal total grows only if it is a player agent with a live medic of
\* its own squad other than itself, by at most 0.2.
C12_MedicHeal ==
    /\ [](\A m \in Range(LiveRoster) : \A st \in States : \A rnd \in RandomDraws :
            LET after == Boid_update([World EXCEPT !.b[m].state = st], m, LiveRoster,
                                     BOIDS_PER_SQUAD, rnd).b
            IN  /\ after[m].health = boid[m].health
                /\ \A o \in Agents \ {m} :
                      after[o] =
                        IF boid[m].is_medic /\ InRoster(o) /\ Live(o)
                           /\ HealDue(boid, m, o, after[m].position)
                        THEN [boid[o] EXCEPT !.health = HealedHealth(@)]
                        ELSE boid[o])
    /\ [](\A m \in Range(LiveRoster) : \A h \in Healths :
            LET before == WithHealth(h)
                after == heal_ally([World EXCEPT !.b = before], m, LiveRoster).b
            IN  \A o \in Agents :
                  after[o] =
                    IF boid[m].is_medic /\ InRoster(o) /\ Live(o)
                       /\ HealDue(before, m, o, boid[m].position)
                    THEN [before[o] EXCEPT !.health = HealedHealth(h)]
                    ELSE before[o])
    /\ [][\A o \in Agents :
            hist'.healed[o] > hist.healed[o] =>
                /\ ~boid[o].is_enemy
                /\ \E m \in Range(LiveRoster) :
                      /\ boid[m].is_medic /\ m # o /\ boid[m].squad_id = boid[o].squad_id
                      /\ ~boid[m].is_leader /\ boid[m].index_in_squad = 0
                      /\ hist'.healed[o] - hist.healed[o] <= Frac(2, 10, SCALE)]_vars

\* a live medic has healed a damaged agent of its own squad that is still
\* within 60 of it and below full health, while an agent of the other player
\* squad within 60 of that medic has received nothing
C12_HealedInSquad ==
    \E m \in Range(LiveRoster) : \E o \in Range(LiveRoster) : \E p \in Range(LiveRoster) :
        /\ boid[m].is_medic
        /\ boid[o].squad_id = boid[m].squad_id /\ o # m
        /\ hist.healed[o] > 0 /\ boid[o].health < FULL_HEALTH * SCALE
        /\ Within(boid[m].position, boid[o].position, Px(HEAL_RADIUS))
        /\ ~boid[p].is_enemy /\ boid[p].squad_id # boid[m].squad_id
        /\ Within(boid[m].position, boid[p].position, Px(HEAL_RADIUS))
        /\ hist.healed[p] = 0

\* C13: the list never gains an agent (it holds agents created at the start,
\* each at most once, and every step leaves it a sublist of what it was); an
\* agent off the list has health <= 0; an agent with health <= 0 is off the
\* list after the next roster filter; and no step raises the health of an
\* agent whose health is <= 0.
C13_DeathIsPermanent ==
    /\ [](/\ \A i \in 1..Len(boids) : boids[i] \in Agents
          /\ \A i \in 1..Len(boids) : \A j \in 1..Len(boids) : boids[i] = boids[j] => i = j
          /\ \A a \in Agents : ~InRoster(a) => boid[a].health <= 0)
    /\ [][/\ Range(boids') \subseteq Range(boids)
          /\ tick' = tick + 1 => \A a \in Agents : boid[a].health <= 0 => a \notin Range(boids')
          /\ \A a \in Agents : boid[a].health <= 0 => boid'[a].health <= boid[a].health]_vars

\* an agent that the medic of its squad had healed has died and is off the
\* list, while that medic is alive and on the list
C13_DeadOffList ==
    \E a \in Agents : \E m \in Range(LiveRoster) :
        /\ boid[a].health <= 0 /\ ~InRoster(a) /\ hist.healed[a] > 0
        /\ boid[m].is_medic /\ boid[m].squad_id = boid[a].squad_id

\* the leader of the squad of agent a
SquadLeader(a) ==
    CHOOSE l \in Agents : /\ boid[l].is_leader /\ boid[l].squad_id = boid[a].squad_id
                          /\ boid[l].is_enemy = boid[a].is_enemy

\* C14: between two iterations of the game loop leader_ref is None for every
\* leader and for every live follower whose squad leader has health <= 0, and
\* a leader_ref that is not None designates a live leader of the follower's
\* own faction and squad_id.
C14_LeaderRef ==
    \A a \in Agents :
        /\ boid[a].is_leader => boid[a].leader_ref = None
        /\ (~boid[a].is_leader /\ Live(a) /\ ~Live(SquadLeader(a)))
              => boid[a].leader_ref = None
        /\ boid[a].leader_ref # None =>
              LET l == boid[a].leader_ref
              IN  /\ Live(l) /\ boid[l].is_leader
                  /\ boid[l].is_enemy = boid[a].is_enemy
                  /\ boid[l].squad_id = boid[a].squad_id

\* C15: after the position update of a live agent, for any position and
\* velocity it had (pre-wrap values below 0 and beyond the world size
\* included), 0 <= x < WIDTH and 0 <= y < HEIGHT.
C15_PositionInWorld ==
    \A a \in Agents :
        /\ 0 <= boid[a].position[1] /\ boid[a].position[1] < Px(WIDTH)
        /\ 0 <= boid[a].position[2] /\ boid[a].position[2] < Px(HEIGHT)

\* squared magnitude of the velocity of agent a, and the squared cap
SpeedSq(v) == v[1] * v[1] + v[2] * v[2]
TopSpeed == MAX_SPEED * SCALE

NewShots == {i \in 1..Len(projectiles') : projectiles'[i].serial > hist.spawned}
Shooters == {a \in Range(LiveRoster) : boid'[a].projectile_cooldown = PROJECTILE_COOLDOWN}
\* agent a in state st with cooldown cd
Armed(a, st, cd) == [World EXCEPT !.b[a].state = st, !.b[a].projectile_cooldown = cd]
\* the update of agent a in state st with cooldown cd fires, as the claim has it
FiresDue(a, st, cd) ==
    LET t == boid[a].target_enemy
    IN  /\ st = "ENGAGE" /\ t # None /\ cd <= 1
        /\ boid[t].health > 0
        /\ ~Beyond(boid[a].position, boid[t].position, Px(FIRING_RANGE))
Cooldowns == {0, 1, 2, PROJECTILE_COOLDOWN}

\* C17: the update of a live agent, in whichever state and with whichever
\* cooldown, adds a projectile exactly if it runs ENGAGE, its target is alive,
\* its cooldown is 0 after the decrement and the target is within firing
\* range; it then adds exactly one, at its own position and aimed at its
\* target, and leaves the cooldown at 60; otherwise it adds none and leaves
\* the cooldown one lower (not below 0).  In every tick the new projectiles
\* are one per agent that fired, each aimed at that agent's target, and every
\* agent that fired was in ENGAGE with a live target in range and a cooldown
\* of at most 1; a cooldown that goes down by one per update from 60 keeps two
\* shots of an agent at least 60 of its updates apart.
C17_Firing ==
    /\ [](\A a \in Range(LiveRoster) : \A st \in States : \A cd \in Cooldowns :
            LET after == Boid_update(Armed(a, st, cd), a, LiveRoster, BOIDS_PER_SQUAD, <<0, 0>>)
                n == Len(projectiles)
            IN  IF FiresDue(a, st, cd)
                THEN /\ Len(after.ps) = n + 1
                     /\ after.ps[n + 1].pos = boid[a].position
                     /\ after.ps[n + 1].target_boid = boid[a].target_enemy
                     /\ after.ps[n + 1].active
                     /\ after.b[a].projectile_cooldown = PROJECTILE_COOLDOWN
                ELSE /\ after.ps = projectiles
                     /\ after.b[a].projectile_cooldown = IF cd > 0 THEN cd - 1 ELSE 0)
    /\ [](\A a \in Agents : boid[a].projectile_cooldown \in 0..PROJECTILE_COOLDOWN)
    /\ [][tick' = tick + 1 =>
            /\ Cardinality(NewShots) = Cardinality(Shooters)
            /\ hist'.spawned = hist.spawned + Cardinality(Shooters)
            /\ \A t \in Agents :
                  Cardinality({i \in NewShots : projectiles'[i].target_boid = t})
                    = Cardinality({a \in Shooters : boid[a].target_enemy = t})
            /\ \A a \in Shooters :
                  /\ boid[a].state = "ENGAGE" /\ boid[a].projectile_cooldown <= 1
                  /\ boid[a].target_enemy # None /\ Live(boid[a].target_enemy)
                  /\ \/ ~Beyond(boid[a].position, boid[boid[a].target_enemy].position,
                                Px(FIRING_RANGE))
                     \/ ~Beyond(boid[a].position, boid'[boid[a].target_enemy].position,
                                Px(FIRING_RANGE))
            /\ \A a \in Range(LiveRoster) \ Shooters :
                  boid'[a].projectile_cooldown =
                      IF boid[a].projectile_cooldown > 0 THEN boid[a].projectile_cooldown - 1
                                                         ELSE 0]_vars

\* an agent has just fired again, 60 updates or more after it first could:
\* its cooldown is back at 60 and its projectile is on the list, while an
\* agent that is engaging beyond firing range holds its fire at cooldown 0
C17_FiredAgain ==
    /\ \E a \in Range(LiveRoster) : \E i \in 1..Len(projectiles) :
          /\ boid[a].state = "ENGAGE" /\ boid[a].projectile_cooldown = PROJECTILE_COOLDOWN
          /\ hist.since[a] > PROJECTILE_COOLDOWN /\ hist.spawned > Cardinality(Agents)
          /\ projectiles[i].target_boid = boid[a].target_enemy
          /\ projectiles[i].serial > hist.spawned - Cardinality(Agents)
    /\ \E a \in Range(LiveRoster) :
          /\ boid[a].state = "ENGAGE" /\ boid[a].projectile_cooldown = 0
          /\ boid[a].target_enemy # None /\ Live(boid[a].target_enemy)
          /\ Beyond(boid[a].position, boid[boid[a].target_enemy].position, Px(FIRING_RANGE))

\* agent a engaging target t with health h
Engaging(a, t, h) ==
    [World EXCEPT !.b[a].state = "ENGAGE", !.b[a].target_enemy = t, !.b[a].health = h]
AroundEvadeHealth == {EVADE_HEALTH * SCALE - 1, EVADE_HEALTH * SCALE}

\* C18: the update of a live agent that runs ENGAGE, with the target it has
\* (alive or dead) or with none, at its own health and at health just below
\* and exactly 30, ends in EVADE exactly if the agent is not an enemy and its
\* health is below 30; in every tick an agent that was in ENGAGE is in EVADE
\* afterwards only if it is a player agent whose health was below 30, and is
\* so whenever its health, even after a heal, was below 30; and no enemy is
\* ever in EVADE.
C18_EvadeFromEngage ==
    /\ [](\A a \in Range(LiveRoster) :
          \A t \in {boid[a].target_enemy, None} :
          \A h \in AroundEvadeHealth \cup {boid[a].health} :
            (Boid_update(Engaging(a, t, h), a, LiveRoster, BOIDS_PER_SQUAD, <<0, 0>>)
                .b[a].state = "EVADE")
            <=> (~boid[a].is_enemy /\ h < EVADE_HEALTH * SCALE))
    /\ [](\A a \in Agents : boid[a].is_enemy => boid[a].state # "EVADE")
    /\ [][tick' = tick + 1 =>
            \A a \in Range(LiveRoster) :
                boid[a].state = "ENGAGE" =>
                    /\ boid'[a].state = "EVADE" =>
                          ~boid[a].is_enemy /\ boid[a].health < EVADE_HEALTH * SCALE
                    /\ (~boid[a].is_enemy
                          /\ boid[a].health + Frac(2, 10, SCALE) < EVADE_HEALTH * SCALE)
                        => boid'[a].state = "EVADE"]_vars

\* a player agent of health below 30 is in EVADE, still holding the live
\* target it was engaging, while an enemy of health below 30 is in ENGAGE
C18_Evading ==
    /\ \E a \in Range(LiveRoster) :
          /\ ~boid[a].is_enemy /\ boid[a].state = "EVADE"
          /\ boid[a].health < EVADE_HEALTH * SCALE
          /\ boid[a].attacking /\ boid[a].target_enemy # None
          /\ Live(boid[a].target_enemy)
    /\ \E e \in Range(LiveRoster) :
          /\ boid[e].is_enemy /\ boid[e].state = "ENGAGE"
          /\ boid[e].health < EVADE_HEALTH * SCALE

\* C19: in every reachable state an agent whose state is PATROL or EVADE has
\* target_enemy None (a target is held only in ENGAGE).
C19_TargetOnlyInEngage ==
    \A a \in Agents :
        boid[a].state \in {"PATROL", "EVADE"} => boid[a].target_enemy = None

\* agent a in state st with target t
InState(a, st, t) == [World EXCEPT !.b[a].state = st, !.b[a].target_enemy = t]

\* C20: in every reachable state an agent in ENGAGE has a target_enemy that
\* is not None and is an agent of the other faction.  The update of a live
\* agent ends in ENGAGE only from PATROL, with such a target set by it, or
\* from ENGAGE with the target it had; from ENGAGE without a target and from
\* EVADE it does not end in ENGAGE; the waypoint command never puts a leader
\* in ENGAGE.  In every step an agent that enters ENGAGE was in PATROL and
\* has a target of the other faction, and an agent in ENGAGE whose target
\* becomes None is no longer in ENGAGE.
C20_EngageHasTarget ==
    /\ [](\A a \in Agents :
            boid[a].state = "ENGAGE" =>
                /\ boid[a].target_enemy # None
                /\ Opposed(a, boid[a].target_enemy))
    /\ [](\A a \in Range(LiveRoster) : \A st \in States :
          \A t \in {boid[a].target_enemy, None} :
            LET after == Boid_update(InState(a, st, t), a, LiveRoster,
                                     BOIDS_PER_SQUAD, <<0, 0>>).b[a]
            IN  /\ after.state = "ENGAGE" =>
                      /\ st \in {"PATROL", "ENGAGE"}
                      /\ after.target_enemy # None /\ Opposed(a, after.target_enemy)
                      /\ st = "ENGAGE" => after.target_enemy = t
                /\ (st = "ENGAGE" /\ after.target_enemy = None) => after.state # "ENGAGE")
    /\ [](\A l \in Range(PlayerLeaders) : \A pos \in ClickPoints :
            SetWaypoint(boid, l, pos)[l].state # "ENGAGE")
    /\ [][\A a \in Agents :
            /\ (boid'[a].state = "ENGAGE" /\ boid[a].state # "ENGAGE") =>
                  /\ boid[a].state = "PATROL"
                  /\ boid'[a].target_enemy # None /\ Opposed(a, boid'[a].target_enemy)
            /\ (boid[a].state = "ENGAGE" /\ boid'[a].target_enemy = None) =>
                  boid'[a].state # "ENGAGE"]_vars

\* an agent whose target has died has just dropped it and left ENGAGE (it is
\* in PATROL without target, its cooldown still running from its last shot),
\* while another agent is engaging a live agent of the other faction
C20_TargetLost ==
    /\ \E a \in Range(LiveRoster) : \E d \in Agents :
          /\ boid[a].state = "PATROL" /\ boid[a].target_enemy = None /\ ~boid[a].attacking
          /\ boid[a].projectile_cooldown > 0
          /\ Opposed(a, d) /\ ~Live(d)
    /\ \E a \in Range(LiveRoster) :
          /\ boid[a].state = "ENGAGE" /\ boid[a].target_enemy # None
          /\ Opposed(a, boid[a].target_enemy) /\ Live(boid[a].target_enemy)

\* agent a shielded with tm left on its shield timer
Shielded(a, tm) == [World EXCEPT !.b[a].shielded = TRUE, !.b[a].shield_timer = tm]
ShieldTimes == {1, 2, SHIELD_DURATION}

\* C21: in every reachable state a shielded agent has shield_timer > 0 and is
\* neither an enemy nor a leader.  The update of a live player follower that
\* is shielded takes one off its timer and leaves it shielded exactly if the
\* timer is still above 0.  A live follower of a live leader that has
\* activated its shield is shielded exactly while the leader has made fewer
\* than 180 updates since (as many as the follower has), with 180 less that
\* many left on its timer: it is unshielded after 180 of its own updates.
C21_ShieldExpires ==
    /\ [](\A a \in Agents :
            boid[a].shielded =>
                boid[a].shield_timer > 0 /\ ~boid[a].is_enemy /\ ~boid[a].is_leader)
    /\ [](\A a \in Range(LiveRoster) : \A tm \in ShieldTimes :
            (~boid[a].is_enemy /\ ~boid[a].is_leader) =>
                LET after == Boid_update(Shielded(a, tm), a, LiveRoster,
                                         BOIDS_PER_SQUAD, <<0, 0>>).b[a]
                IN  /\ after.shield_timer = tm - 1
                    /\ after.shielded <=> tm - 1 > 0)
    /\ [](\A o \in Range(LiveRoster) :
            (~boid[o].is_enemy /\ ~boid[o].is_leader /\ Live(SquadLeader(o))
                /\ hist.activations[SquadLeader(o)] >= 1)
            => LET n == hist.since[SquadLeader(o)]
               IN  /\ boid[o].shielded <=> n < SHIELD_DURATION
                   /\ boid[o].shielded => boid[o].shield_timer = SHIELD_DURATION - n)

\* the shield of a live follower has just run out, 180 updates after its
\* leader activated it, while the leader's timer is still counting its cooldown
C21_JustExpired ==
    \E o \in Range(LiveRoster) :
        /\ ~boid[o].is_enemy /\ ~boid[o].is_leader
        /\ hist.activations[SquadLeader(o)] = 1
        /\ hist.since[SquadLeader(o)] = SHIELD_DURATION
        /\ ~boid[o].shielded /\ boid[o].shield_timer = 0
        /\ boid[SquadLeader(o)].shield_timer = SHIELD_COOLDOWN - SHIELD_DURATION
        /\ ~boid[SquadLeader(o)].shielded

====
